---- MODULE Spec2Model ----
(***************************************************************************)
(* Model of looker_describer.py: the report-capture pipeline              *)
(* (process_reports, capture_report, detect_report_pages,                 *)
(* navigate_to_page, capture_single_page, generate_description) and the   *)
(* pure helper sanitize_filename.                                         *)
(*                                                                         *)
(* Strings are sequences of one-character strings.  HTML bodies, which    *)
(* the program only measures and cuts to a prefix, are pairs <<id, len>>: *)
(* the first len characters of the document id.                           *)
(***************************************************************************)
EXTENDS Integers, Sequences, FiniteSets, TLC

VARIABLES
    vertexProjectId,  \* VERTEX_PROJECT_ID as read from the environment
    authFileExists,   \* whether AUTH_STATE_FILE exists on disk
    reports,          \* the rows read from the CSV
    pc,               \* position of process_reports
    idx,              \* 1-based loop index of process_reports
    io,               \* counters of the external effects performed so far
    attempted,        \* indices of the reports handed to capture_report
    failed,           \* indices of the reports whose processing raised
    detected,         \* detected_pages of the running capture_report
    pageIdx,          \* 1-based position of capture_report's page loop
    captures,         \* captures of the running capture_report
    lastNav,          \* what the latest navigate_to_page call did and returned
    navOk,            \* positions whose navigate_to_page returned True
    branch,           \* which branch capture_report took for this report
    request,          \* what generate_description sent to the model
    files,            \* files written under OUTPUT_DIR
    dom,              \* the DOM handed to detect_report_pages (SpecDetect)
    sanName,          \* the argument of sanitize_filename (SpecSanitize)
    sanResult         \* its result

vars == <<vertexProjectId, authFileExists, reports, pc, idx, io, attempted,
          failed, detected, pageIdx, captures, lastNav, navOk, branch, request,
          files, dom, sanName, sanResult>>

----------------------------------------------------------------------------
(* Bounds of the model *)

MaxReports == 2
MaxElems == 2
MaxRuns == 3
MaxPages == 3

----------------------------------------------------------------------------
(* Small helpers *)

Min(a, b) == IF a < b THEN a ELSE b

Range(s) == {s[n] : n \in DOMAIN s}

Repeat(c, n) == [j \in 1..n |-> c]

\* s[:n] of Python for n >= 0
Prefix(s, n) == SubSeq(s, 1, Min(n, Len(s)))

----------------------------------------------------------------------------
(* sanitize_filename *)

FilenameCap == 100

ForbiddenChars == {"<", ">", ":", "\"", "/", "\\", "|", "?", "*"}

WhitespaceChars == {" ", "\t", "\n", "\r", "\f"}

\* re.sub(r'[<>:"/\\|?*]', '_', name)
ReplaceForbidden(s) ==
    [j \in 1..Len(s) |-> IF s[j] \in ForbiddenChars THEN "_" ELSE s[j]]

\* re.sub(r'\s+', '_', safe): each maximal run of whitespace becomes one "_"
CollapseWhitespace(s) ==
    LET marked == [j \in 1..Len(s) |->
                     IF s[j] \in WhitespaceChars
                     THEN IF j > 1 /\ s[j - 1] \in WhitespaceChars
                          THEN "DROP" ELSE "_"
                     ELSE s[j]]
    IN  SelectSeq(marked, LAMBDA c : c # "DROP")

\* str.strip(chars): drop leading and trailing characters that are in chars
StripChars(s, chars) ==
    LET keep == {j \in 1..Len(s) : s[j] \notin chars}
    IN  IF keep = {} THEN <<>>
        ELSE LET lo == CHOOSE j \in keep : \A m \in keep : j <= m
                 hi == CHOOSE j \in keep : \A m \in keep : j >= m
             IN  SubSeq(s, lo, hi)

\* The cut applied to the stripped name: safe[:100]
CutAfterStrip(s) == Prefix(s, FilenameCap)

SanitizeFilename(name) ==
    CutAfterStrip(StripChars(CollapseWhitespace(ReplaceForbidden(name)), {"_"}))

----------------------------------------------------------------------------
(* detect_report_pages *)

\* tab_selectors, nav_selectors and the selector of strategy 3, in the order
\* in which detect_report_pages queries them
TabSelectors == <<"[role=tablist] [role=tab]", "[data-testid=page-tab]", ".page-tab">>

NavSelectors == <<"nav [role=button]", "[class*=page-nav] [role=button]",
                  "[class*=page-list] [role=button]",
                  "[data-testid=page-navigator] [role=button]">>

GenericSelector == "[class*=page][role=button], [class*=Page][role=button]"

SelectorOrder == TabSelectors \o NavSelectors \o <<GenericSelector>>

\* f"Page {n}"
PageLabel(n) == <<"P", "a", "g", "e", " ", ToString(n)>>

\* name = await el.inner_text(); name.strip() if name else f"Page {i + 1}"
\* (j is the 1-based position of the element, i + 1 in the code)
DescriptorName(text, j) ==
    IF text # <<>> THEN StripChars(text, WhitespaceChars) ELSE PageLabel(j)

\* The dict appended for element j of a query: strategies 1 and 2 store the
\* selector, strategy 3 stores the element handle itself.
Descriptor(sel, j, text) ==
    IF sel = GenericSelector
    THEN [name |-> DescriptorName(text, j), element |-> <<sel, j>>, index |-> j - 1]
    ELSE [name |-> DescriptorName(text, j), selector |-> sel, index |-> j - 1]

\* What the list `pages` holds when the loop over the matched elements ends:
\* the loop appends one descriptor per element until an inner_text() raises.
PagesAfterLoop(pages, sel, elems) ==
    LET bad == {j \in 1..Len(elems) : elems[j].throws}
        stop == IF bad = {} THEN Len(elems) + 1
                ELSE CHOOSE j \in bad : \A m \in bad : j <= m
    IN  pages \o [j \in 1..(stop - 1) |-> Descriptor(sel, j, elems[j].text)]

\* One try-block of detect_report_pages for selector sel with query outcome q.
\* returned: the block executed `return pages`.
TrySelector(pages, sel, q) ==
    IF q.throws THEN [pages |-> pages, returned |-> FALSE]
    ELSE IF Len(q.elems) > 1
    THEN LET after == PagesAfterLoop(pages, sel, q.elems)
             raised == \E j \in 1..Len(q.elems) : q.elems[j].throws
         IN  [pages |-> after, returned |-> ~raised /\ after # <<>>]
    ELSE [pages |-> pages, returned |-> FALSE]

RECURSIVE DetectFrom(_, _, _)
DetectFrom(d, n, pages) ==
    IF n > Len(SelectorOrder) THEN pages
    ELSE LET r == TrySelector(pages, SelectorOrder[n], d[n])
         IN  IF r.returned THEN r.pages ELSE DetectFrom(d, n + 1, r.pages)

DetectReportPages(d) == DetectFrom(d, 1, <<>>)

\* The DOMs the model hands to detect_report_pages
ElementTexts == {<<>>, <<" ", "S", " ">>}

ElemChoices(texts) ==
    {[throws |-> TRUE, text |-> <<>>]} \cup
    {[throws |-> FALSE, text |-> t] : t \in texts}

QueryChoices(texts) ==
    {[throws |-> TRUE, elems |-> <<>>]} \cup
    {[throws |-> FALSE, elems |-> e] :
        e \in UNION {[1..n -> ElemChoices(texts)] : n \in 0..MaxElems}}

NoMatch == [throws |-> FALSE, elems |-> <<>>]

\* The DOM in which the selectors numbered a and b have the query outcomes
\* qa and qb and every other selector matches nothing
DomOf(a, b, qa, qb) ==
    [n \in 1..Len(SelectorOrder) |->
        IF n = a THEN qa ELSE IF n = b THEN qb ELSE NoMatch]

\* DOMs in which at most two selectors, numbered a in A and b in B, match
\* anything, with element texts drawn from texts
DomsWith(A, B, texts) ==
    {DomOf(a, b, qa, qb) :
        a \in A, b \in B, qa \in QueryChoices(texts), qb \in QueryChoices(texts)}

----------------------------------------------------------------------------
(* Specification of sanitize_filename alone *)

SanChars == {"a", "_", " ", "/"}

RunLens == {1, 2, FilenameCap - 1, FilenameCap}

RECURSIVE Expand(_)
Expand(runs) ==
    IF runs = <<>> THEN <<>>
    ELSE Repeat(Head(runs)[1], Head(runs)[2]) \o Expand(Tail(runs))

Idle ==
    /\ vertexProjectId = "" /\ authFileExists = FALSE /\ reports = <<>>
    /\ pc = "idle" /\ idx = 0
    /\ io = [playwright |-> 0] /\ attempted = <<>> /\ failed = {}
    /\ detected = <<>> /\ pageIdx = 0 /\ captures = <<>>
    /\ lastNav = [called |-> FALSE] /\ navOk = {}
    /\ branch = "none" /\ request = [made |-> FALSE] /\ files = {}

mainVars == <<vertexProjectId, authFileExists, reports, pc, idx, io, attempted,
              failed, detected, pageIdx, captures, lastNav, navOk, branch,
              request, files>>

InitSanitize ==
    /\ Idle
    /\ dom = <<>>
    /\ \E n \in 0..MaxRuns : \E runs \in [1..n -> SanChars \X RunLens] :
          sanName = Expand(runs)
    /\ sanResult = [done |-> FALSE, value |-> <<>>]

Sanitize ==
    /\ pc = "idle"
    /\ ~sanResult.done
    /\ sanResult' = [done |-> TRUE, value |-> SanitizeFilename(sanName)]
    /\ UNCHANGED <<mainVars, dom, sanName>>

SpecSanitize == InitSanitize /\ [][Sanitize]_vars

\* C6: the result of sanitize_filename contains no forbidden character and no
\* whitespace, neither starts nor ends with an underscore, and is at most
\* 100 characters long.
C6_SanitizedNameClean ==
    sanResult.done =>
        LET r == sanResult.value
        IN  /\ \A j \in 1..Len(r) : r[j] \notin ForbiddenChars \cup WhitespaceChars
            /\ Len(r) <= FilenameCap
            /\ r # <<>> => r[1] # "_" /\ r[Len(r)] # "_"

----------------------------------------------------------------------------
(* Specification of detect_report_pages alone *)

InitDetect ==
    /\ Idle
    /\ \E a \in 1..Len(SelectorOrder), b \in 1..Len(SelectorOrder) :
          \E qa \in QueryChoices(ElementTexts), qb \in QueryChoices(ElementTexts) :
             dom = DomOf(a, b, qa, qb)
    /\ sanName = <<>>
    /\ sanResult = [done |-> FALSE, value |-> <<>>]

Detect ==
    /\ pc = "idle"
    /\ dom # <<>>
    /\ branch = "none"
    /\ detected' = DetectReportPages(dom)
    /\ branch' = "detected"
    /\ UNCHANGED <<vertexProjectId, authFileExists, reports, pc, idx, io,
                   attempted, failed, pageIdx, captures, lastNav, navOk, request,
                   files, dom, sanName, sanResult>>

SpecDetect == InitDetect /\ [][Detect]_vars

\* C8: detect_report_pages returns the descriptors of the first selector, in
\* priority order, that matched more than one element and whose attempt did
\* not throw, one per element indexed 0..k-1 in element order, and the empty
\* list if there is none; an attempt that throws or matches at most one
\* element contributes nothing.
CleanMatch(q) ==
    /\ ~q.throws
    /\ Len(q.elems) > 1
    /\ \A j \in 1..Len(q.elems) : ~q.elems[j].throws

ExpectedPages(d) ==
    LET wins == {n \in 1..Len(SelectorOrder) : CleanMatch(d[n])}
    IN  IF wins = {} THEN <<>>
        ELSE LET w == CHOOSE n \in wins : \A m \in wins : n <= m
             IN  [j \in 1..Len(d[w].elems) |->
                    Descriptor(SelectorOrder[w], j, d[w].elems[j].text)]

C8_FirstCleanMatchWins ==
    (branch = "detected") => detected = ExpectedPages(dom)

----------------------------------------------------------------------------
(* wait_for_looker_studio_load and navigate_to_page *)

\* The try-body of wait_for_looker_studio_load: wait_for_load_state raises on
\* a timeout; every indicator wait sits in its own try/except-pass, so
\* whether the indicators became hidden changes nothing; then sleep(2).
LoadWaitBody(net, hidden) ==
    IF net = "timeout" THEN "exception" ELSE "slept"

\* except Exception: print a warning; the function returns normally.
WaitForLookerStudioLoad(net, hidden) ==
    [raised |-> FALSE, warned |-> LoadWaitBody(net, hidden) = "exception"]

\* The try-body of navigate_to_page for descriptor desc.  env is what the
\* browser does: whether query_selector_all raises, how many elements the
\* fresh query finds, whether click() raises (a stale handle does), and the
\* outcome of the load wait.
NavBody(desc, env) ==
    LET load == WaitForLookerStudioLoad(env.net, env.hidden)
        afterClick ==
            [queried |-> "element" \notin DOMAIN desc, clickAttempted |-> TRUE,
             clicked |-> TRUE, settled |-> TRUE, waited |-> ~load.raised,
             outcome |-> IF load.raised THEN "exception" ELSE "return_true"]
        clickFailed ==
            [queried |-> "element" \notin DOMAIN desc, clickAttempted |-> TRUE,
             clicked |-> FALSE, settled |-> FALSE, waited |-> FALSE,
             outcome |-> "exception"]
    IN  IF "element" \in DOMAIN desc
        THEN IF env.clickRaises THEN clickFailed ELSE afterClick
        ELSE IF env.queryRaises
             THEN [queried |-> FALSE, clickAttempted |-> FALSE, clicked |-> FALSE,
                   settled |-> FALSE, waited |-> FALSE, outcome |-> "exception"]
             ELSE IF desc.index < env.freshCount
                  THEN IF env.clickRaises THEN clickFailed ELSE afterClick
                  ELSE [queried |-> TRUE, clickAttempted |-> FALSE,
                        clicked |-> FALSE, settled |-> FALSE, waited |-> FALSE,
                        outcome |-> "return_false"]

\* Mutant of NavCatch: the exception is not caught
NavCatchNothing(outcome) == outcome

\* except Exception as e: print a warning; return False
NavCatch(outcome) ==
    IF outcome = "exception" THEN "return_false" ELSE outcome

NavigateToPage(desc, env) ==
    LET b == NavBody(desc, env)
    IN  [b EXCEPT !.outcome = NavCatch(b.outcome)]

\* The browser's behaviours during one navigate_to_page; what would follow a
\* step that raised is not drawn, since it never happens.
NavEnvs ==
    {e \in [queryRaises : BOOLEAN, freshCount : 0..MaxElems, clickRaises : BOOLEAN,
            net : {"idle", "timeout"}, hidden : BOOLEAN] :
        /\ e.queryRaises => e.freshCount = 0
        /\ e.clickRaises => e.net = "idle"
        /\ ~e.hidden => e.net = "idle" /\ ~e.clickRaises /\ ~e.queryRaises}

----------------------------------------------------------------------------
(* capture_single_page *)

\* Mutants of FileBase: the suffix is never, or always, applied
FileBaseNeverSuffixed(safe_name, page_number, is_multi_page) == safe_name

FileBaseAlwaysSuffixed(safe_name, page_number, is_multi_page) ==
    safe_name \o <<"_", "p", "a", "g", "e", ToString(page_number)>>

\* file_base: f"{safe_name}_page{page_number}" if is_multi_page else safe_name
FileBase(safe_name, page_number, is_multi_page) ==
    IF is_multi_page
    THEN safe_name \o <<"_", "p", "a", "g", "e", ToString(page_number)>>
    ELSE safe_name

ScreenshotPath(file_base) == file_base \o <<".png">>

HtmlPath(file_base) == file_base \o <<".html">>

\* The PageCapture that capture_single_page returns
PageCapture(safe_name, page_number, page_name, is_multi_page, html) ==
    LET file_base == FileBase(safe_name, page_number, is_multi_page)
    IN  [page_number |-> page_number,
         page_name |-> page_name,
         screenshot_path |-> ScreenshotPath(file_base),
         html_path |-> HtmlPath(file_base),
         html_content |-> html]

\* The files on disk after capture_single_page ran with the given outcome:
\* the screenshot is written first, the HTML second.
FilesAfterCapture(old, cap, outcome) ==
    IF outcome = "screenshot_raises" THEN old
    ELSE IF outcome = "html_raises" THEN old \cup {cap.screenshot_path}
    ELSE old \cup {cap.screenshot_path, cap.html_path}

CaptureOutcomes == {"ok", "screenshot_raises", "html_raises"}

\* page_name = page_info.get("name", f"Page {page_num}")
PageNameOf(page_info, page_num) ==
    IF "name" \in DOMAIN page_info THEN page_info.name ELSE PageLabel(page_num)

\* Mutant of PageNum: the 0-based loop index is used as the page number
PageNumZeroBased(pos) == pos - 1

\* page_num = i + 1 for the descriptor at 1-based position pos of the list
PageNum(pos) == (pos - 1) + 1

\* "Main", the page_name of the single-page branch
MainName == <<"M", "a", "i", "n">>

----------------------------------------------------------------------------
(* generate_description *)

MaxHtmlChars == 50000

TruncationMarker == "\n... [HTML truncated]"

HtmlLen(html) == html[2]

\* html[:n]
HtmlPrefix(html, n) == <<html[1], Min(n, html[2])>>

\* if len(html) > limit: html = html[:limit] + marker
TruncateHtml(html, limit) ==
    IF HtmlLen(html) > limit
    THEN [body |-> HtmlPrefix(html, limit), tail |-> TruncationMarker]
    ELSE [body |-> html, tail |-> ""]

\* is_multi_page = len(captures) > 1
IsMultiPage(caps) == Len(caps) > 1

\* Mutant of HtmlBudget: the budget is not divided among the pages
HtmlBudgetUndivided(caps) == MaxHtmlChars

\* max_html_per_page = 50000 // len(captures); max_html_chars = 50000
HtmlBudget(caps) ==
    IF IsMultiPage(caps) THEN MaxHtmlChars \div Len(caps) ELSE MaxHtmlChars

\* The content generate_description hands to model.generate_content
BuildRequest(name, description, caps) ==
    IF IsMultiPage(caps)
    THEN [made |-> TRUE, template |-> "GEMINI_PROMPT_MULTI",
          name |-> name, description |-> description,
          page_count |-> Len(caps),
          page_names |-> [j \in 1..Len(caps) |-> caps[j].page_name],
          sections |-> [j \in 1..Len(caps) |->
                          [page_number |-> caps[j].page_number,
                           page_name |-> caps[j].page_name,
                           html |-> TruncateHtml(caps[j].html_content, HtmlBudget(caps))]],
          images |-> [j \in 1..Len(caps) |-> caps[j].screenshot_path]]
    ELSE [made |-> TRUE, template |-> "GEMINI_PROMPT_SINGLE",
          name |-> name, description |-> description,
          page_count |-> 1,
          page_names |-> <<>>,
          sections |-> <<[page_number |-> caps[1].page_number,
                          page_name |-> caps[1].page_name,
                          html |-> TruncateHtml(caps[1].html_content, HtmlBudget(caps))]>>,
          images |-> <<caps[1].screenshot_path>>]

----------------------------------------------------------------------------
(* process_reports and capture_report *)

\* The CSV rows: a report to visit and a row without url
ReportRows ==
    {[name |-> <<"_", "S", "a", "l", "e", "s", "/", "Q", "1", " ", " ">>,
      url |-> "https://x", description |-> "d"],
     [name |-> <<"R">>, url |-> "", description |-> "d"]}

ReportLists == UNION {[1..n -> ReportRows] : n \in 0..MaxReports}

\* The DOMs of the reports the pipeline visits: tabs and generic page buttons
MainDoms == DomsWith({1}, {Len(SelectorOrder)}, {<<" ", "S", " ">>})

\* The body HTML extract_body_html returns
HtmlMain == {<<"body", 1200>>}

NoRequest == [made |-> FALSE]

NoNav == [called |-> FALSE]

NoIo == [playwright |-> 0, authFlows |-> 0, launches |-> 0, gotos |-> 0,
         clicks |-> 0, generations |-> 0, descriptions |-> 0, closes |-> 0,
         completed |-> 0]

\* The state of the running report before capture_report has done anything,
\* and again once process_reports has left the report
NoReport ==
    /\ detected' = <<>>
    /\ pageIdx' = 0
    /\ captures' = <<>>
    /\ lastNav' = NoNav
    /\ navOk' = {}
    /\ branch' = "none"
    /\ request' = NoRequest
    /\ files' = {}

Init ==
    /\ vertexProjectId \in {"", "my-project"}
    /\ authFileExists \in BOOLEAN
    /\ reports \in ReportLists
    /\ pc = "start"
    /\ idx = 0
    /\ io = NoIo
    /\ attempted = <<>>
    /\ failed = {}
    /\ detected = <<>>
    /\ pageIdx = 0
    /\ captures = <<>>
    /\ lastNav = NoNav
    /\ navOk = {}
    /\ branch = "none"
    /\ request = NoRequest
    /\ files = {}
    /\ dom = <<>>
    /\ sanName = <<>>
    /\ sanResult = [done |-> FALSE, value |-> <<>>]

subVars == <<dom, sanName, sanResult>>

reportVars == <<detected, pageIdx, captures, lastNav, navOk, branch, request, files>>

\* if not VERTEX_PROJECT_ID: print(...); return
ConfigMissing(project) == project = ""

\* Mutant of AfterConfigCheck: the early return is missing
AfterConfigCheckNoReturn(project) == "playwright"

\* Where process_reports goes after the configuration check
AfterConfigCheck(project) ==
    IF ConfigMissing(project) THEN "returned" ELSE "playwright"

ValidateConfig ==
    /\ pc = "start"
    /\ pc' = AfterConfigCheck(vertexProjectId)
    /\ UNCHANGED <<vertexProjectId, authFileExists, reports, idx, io, attempted,
                   failed, reportVars, subVars>>

\* async with async_playwright(): run_auth_flow when the auth file is
\* missing (it launches and closes a visible browser and saves the state),
\* then launch the headless browser and open the page.
OpenBrowser ==
    /\ pc = "playwright"
    /\ io' = [io EXCEPT !.playwright = @ + 1,
                        !.authFlows = IF authFileExists THEN @ ELSE @ + 1,
                        !.launches = IF authFileExists THEN @ + 1 ELSE @ + 2]
    /\ authFileExists' = TRUE
    /\ idx' = 1
    /\ pc' = "loop"
    /\ UNCHANGED <<vertexProjectId, reports, attempted, failed, reportVars, subVars>>

\* if not url: print("Skipping - no URL provided"); continue
SkipReport ==
    /\ pc = "loop"
    /\ idx <= Len(reports)
    /\ reports[idx].url = ""
    /\ idx' = idx + 1
    /\ UNCHANGED <<vertexProjectId, authFileExists, reports, pc, io, attempted,
                   failed, reportVars, subVars>>

\* Mutant of AfterReportException: the exception leaves process_reports
AfterReportExceptionPropagates(i) == [pc |-> "crashed", idx |-> i]

\* except Exception as e: print(...); continue
AfterReportException(i) == [pc |-> "loop", idx |-> i + 1]

\* An exception raised while report idx is processed reaches the handler
RaiseInReport ==
    /\ failed' = failed \cup {idx}
    /\ pc' = AfterReportException(idx).pc
    /\ idx' = AfterReportException(idx).idx
    /\ NoReport

\* capture_report up to detect_report_pages: page.goto, the load wait,
\* sanitize_filename, captures = []
BeginCapture ==
    /\ pc = "loop"
    /\ idx <= Len(reports)
    /\ reports[idx].url # ""
    /\ attempted' = Append(attempted, idx)
    /\ io' = [io EXCEPT !.gotos = @ + 1]
    /\ \E gotoRaises \in BOOLEAN, net \in {"idle", "timeout"}, hidden \in BOOLEAN :
          IF gotoRaises \/ WaitForLookerStudioLoad(net, hidden).raised
          THEN RaiseInReport
          ELSE /\ pc' = "detect"
               /\ NoReport
               /\ UNCHANGED <<idx, failed>>
    /\ UNCHANGED <<vertexProjectId, authFileExists, reports, subVars>>

\* detected_pages = await detect_report_pages(page) and the branch on it
DetectPages ==
    /\ pc = "detect"
    /\ \E d \in MainDoms :
          /\ detected' = DetectReportPages(d)
          /\ branch' = IF detected' = <<>> THEN "single" ELSE "multi"
          /\ pc' = IF detected' = <<>> THEN "single" ELSE "multi"
    /\ pageIdx' = 1
    /\ UNCHANGED <<vertexProjectId, authFileExists, reports, idx, io, attempted,
                   failed, captures, lastNav, navOk, request, files, subVars>>

\* What process_reports does with the list capture_report returned:
\* if not captures: continue
AfterCaptureReport(caps, i) ==
    IF caps = <<>> THEN [pc |-> "loop", idx |-> i + 1]
    ELSE [pc |-> "generate", idx |-> i]

\* The single-page branch: one capture_single_page(page_number=1,
\* page_name="Main", is_multi_page=False), then return captures
CaptureMain ==
    /\ pc = "single"
    /\ \E html \in HtmlMain, outcome \in CaptureOutcomes :
          LET cap == PageCapture(SanitizeFilename(reports[idx].name), 1,
                                 MainName, FALSE, html)
          IN  IF outcome = "ok"
              THEN /\ files' = FilesAfterCapture(files, cap, outcome)
                   /\ captures' = Append(captures, cap)
                   /\ pc' = AfterCaptureReport(captures', idx).pc
                   /\ idx' = AfterCaptureReport(captures', idx).idx
                   /\ UNCHANGED <<failed, detected, pageIdx, lastNav, navOk,
                                  branch, request>>
              ELSE RaiseInReport
    /\ UNCHANGED <<vertexProjectId, authFileExists, reports, io, attempted, subVars>>

\* The multi-page loop, descriptor at position pageIdx > 1:
\* success = await navigate_to_page(page, page_info); if not success: continue
NavigateStep ==
    /\ pc = "multi"
    /\ pageIdx > 1
    /\ pageIdx <= Len(detected)
    /\ \E env \in NavEnvs :
          LET desc == detected[pageIdx]
              r == NavigateToPage(desc, env)
          IN  /\ lastNav' = [called |-> TRUE, pos |-> pageIdx,
                             byHandle |-> "element" \in DOMAIN desc,
                             queryRaised |-> ("element" \notin DOMAIN desc
                                              /\ env.queryRaises),
                             outOfRange |-> ("element" \notin DOMAIN desc
                                             /\ ~env.queryRaises
                                             /\ ~(desc.index < env.freshCount)),
                             clickRaised |-> (r.clickAttempted /\ env.clickRaises),
                             loadTimedOut |-> (r.clicked /\ env.net = "timeout"),
                             result |-> r]
              /\ io' = [io EXCEPT !.clicks = IF r.clicked THEN @ + 1 ELSE @]
              /\ IF r.outcome = "return_true"
                 THEN /\ navOk' = navOk \cup {pageIdx}
                      /\ pc' = "page"
                      /\ UNCHANGED <<pageIdx, idx, failed, detected, captures,
                                     branch, request, files>>
                 ELSE IF r.outcome = "return_false"
                 THEN /\ pageIdx' = pageIdx + 1
                      /\ UNCHANGED <<navOk, pc, idx, failed, detected, captures,
                                     branch, request, files>>
                 ELSE /\ failed' = failed \cup {idx}
                      /\ pc' = AfterReportException(idx).pc
                      /\ idx' = AfterReportException(idx).idx
                      /\ UNCHANGED <<navOk, pageIdx, detected, captures, branch,
                                     request, files>>
    /\ UNCHANGED <<vertexProjectId, authFileExists, reports, attempted, subVars>>

\* The multi-page loop: capture_single_page(page_number=page_num,
\* page_name=page_name, is_multi_page=True) for the first descriptor and
\* for every descriptor navigated to
CapturePage ==
    /\ \/ pc = "multi" /\ pageIdx = 1 /\ pageIdx <= Len(detected)
       \/ pc = "page"
    /\ \E html \in HtmlMain, outcome \in CaptureOutcomes :
          LET cap == PageCapture(SanitizeFilename(reports[idx].name),
                                 PageNum(pageIdx),
                                 PageNameOf(detected[pageIdx], PageNum(pageIdx)),
                                 TRUE, html)
          IN  IF outcome = "ok"
              THEN /\ files' = FilesAfterCapture(files, cap, outcome)
                   /\ captures' = Append(captures, cap)
                   /\ pageIdx' = pageIdx + 1
                   /\ pc' = "multi"
                   /\ UNCHANGED <<idx, failed, detected, lastNav, navOk, branch,
                                  request>>
              ELSE RaiseInReport
    /\ UNCHANGED <<vertexProjectId, authFileExists, reports, io, attempted, subVars>>

\* The multi-page loop is exhausted: return captures
ReturnCaptures ==
    /\ pc = "multi"
    /\ pageIdx > Len(detected)
    /\ pc' = AfterCaptureReport(captures, idx).pc
    /\ idx' = AfterCaptureReport(captures, idx).idx
    /\ UNCHANGED <<vertexProjectId, authFileExists, reports, io, attempted,
                   failed, reportVars, subVars>>

\* detailed_description = generate_description(name, description, captures, model)
GenerateDescription ==
    /\ pc = "generate"
    /\ io' = [io EXCEPT !.generations = @ + 1]
    /\ \E raises \in BOOLEAN :
          IF raises THEN RaiseInReport
          ELSE /\ request' = BuildRequest(reports[idx].name,
                                          reports[idx].description, captures)
               /\ pc' = "write"
               /\ UNCHANGED <<idx, failed, detected, pageIdx, captures, lastNav,
                              navOk, branch, files>>
    /\ UNCHANGED <<vertexProjectId, authFileExists, reports, attempted, subVars>>

\* desc_path = output_path / f"{safe_name}.txt"; desc_path.write_text(...)
DescriptionPath(name) == SanitizeFilename(name) \o <<".txt">>

\* The description is written and the loop moves to the next report
WriteDescription ==
    /\ pc = "write"
    /\ \E raises \in BOOLEAN :
          IF raises
          THEN RaiseInReport /\ UNCHANGED io
          ELSE /\ io' = [io EXCEPT !.descriptions = @ + 1]
               /\ idx' = idx + 1
               /\ pc' = "loop"
               /\ NoReport
               /\ UNCHANGED failed
    /\ UNCHANGED <<vertexProjectId, authFileExists, reports, attempted, subVars>>

\* The loop is over: await browser.close(); print("=== Complete! ...")
CloseBrowser ==
    /\ pc = "loop"
    /\ idx > Len(reports)
    /\ io' = [io EXCEPT !.closes = @ + 1, !.completed = @ + 1]
    /\ pc' = "done"
    /\ UNCHANGED <<vertexProjectId, authFileExists, reports, idx, attempted,
                   failed, reportVars, subVars>>

Next ==
    \/ ValidateConfig
    \/ OpenBrowser
    \/ SkipReport
    \/ BeginCapture
    \/ DetectPages
    \/ CaptureMain
    \/ NavigateStep
    \/ CapturePage
    \/ ReturnCaptures
    \/ GenerateDescription
    \/ WriteDescription
    \/ CloseBrowser

Spec == Init /\ [][Next]_vars

\* Every step of process_reports is a coroutine step that asyncio.run drives
\* to completion.
FairSpec == Spec /\ WF_vars(Next)

----------------------------------------------------------------------------
(* Specification of generate_description alone *)

\* HTML lengths around every per-page budget the bounds allow
HtmlLens ==
    {0} \cup UNION {{MaxHtmlChars \div n - 1, MaxHtmlChars \div n,
                     MaxHtmlChars \div n + 1} : n \in 1..MaxPages}

GenName == <<"S", "_", "Q">>

\* The capture lists capture_report can hand over: one unsuffixed "Main"
\* capture, or n captures of a multi-page report
GenCaptures(lens) ==
    [j \in 1..Len(lens) |->
        PageCapture(GenName, j, IF Len(lens) = 1 THEN MainName ELSE PageLabel(j),
                    Len(lens) > 1, <<"body", lens[j]>>)]

InitGenerate ==
    /\ vertexProjectId = "my-project" /\ authFileExists = TRUE /\ reports = <<>>
    /\ pc = "idle" /\ idx = 0
    /\ io = NoIo /\ attempted = <<>> /\ failed = {}
    /\ detected = <<>> /\ pageIdx = 0
    /\ \E n \in 1..MaxPages : \E lens \in [1..n -> HtmlLens] :
          captures = GenCaptures(lens)
    /\ lastNav = NoNav /\ navOk = {}
    /\ branch = "none" /\ request = NoRequest /\ files = {}
    /\ dom = <<>>
    /\ sanName = <<>>
    /\ sanResult = [done |-> FALSE, value |-> <<>>]

Generate ==
    /\ pc = "idle"
    /\ ~request.made
    /\ captures # <<>>
    /\ request' = BuildRequest(GenName, "d", captures)
    /\ io' = [io EXCEPT !.generations = @ + 1]
    /\ UNCHANGED <<vertexProjectId, authFileExists, reports, pc, idx, attempted,
                   failed, detected, pageIdx, captures, lastNav, navOk, branch,
                   files, subVars>>

SpecGenerate == InitGenerate /\ [][Generate]_vars

\* C5: the per-page HTML budget is 50000 for one capture and 50000 div n for
\* n > 1 captures; a page whose HTML is no longer than the budget is sent
\* unchanged without marker, a longer one as its budget-length prefix
\* followed by the marker "\n... [HTML truncated]".
C5_PerPageBudget ==
    request.made =>
        LET n == Len(captures)
            budget == IF n = 1 THEN 50000 ELSE 50000 \div n
        IN  /\ Len(request.sections) = n
            /\ \A j \in 1..n :
                  LET html == captures[j].html_content
                      sent == request.sections[j].html
                  IN  IF html[2] <= budget
                      THEN sent.body = html /\ sent.tail = ""
                      ELSE /\ sent.body = <<html[1], budget>>
                           /\ sent.tail = "\n... [HTML truncated]"

\* Three pages, each longer than 16666 characters, each cut to 16666
\* characters plus marker
C5_Witness ==
    /\ request.made
    /\ Len(captures) = 3
    /\ \A j \in 1..3 :
          /\ captures[j].html_content[2] > 16666
          /\ request.sections[j].html.body[2] = 16666
          /\ request.sections[j].html.tail # ""

----------------------------------------------------------------------------
(* Properties of the pipeline *)

\* capture_report has returned its list to process_reports
Returned == pc \in {"generate", "write"}

\* The safe name of the running report
SafeName == SanitizeFilename(reports[idx].name)

\* The p-th smallest element of a set of numbers
NthOf(K, p) == CHOOSE q \in K : Cardinality({r \in K : r < q}) = p - 1

\* The positions capture_report captures: the first, and every later one
\* whose navigate_to_page returned True
Kept == {1} \cup navOk

\* C1: for N > 1 discovered descriptors capture_report returns one record for
\* the first descriptor and one for every later descriptor whose navigation
\* returned True, in discovery order; page_number is the descriptor's 1-based
\* discovery position (a failed navigation leaves a gap), and the files of
\* every record are named {safe_name}_page{page_number}.
C1_MultiPageRecords ==
    (Returned /\ Len(detected) > 1) =>
        /\ Len(captures) = Cardinality(Kept)
        /\ \A j \in 1..Len(captures) :
              LET pos == NthOf(Kept, j)
                  base == SafeName \o <<"_", "p", "a", "g", "e", ToString(pos)>>
              IN  /\ captures[j].page_number = pos
                  /\ captures[j].page_name = detected[pos].name
                  /\ captures[j].screenshot_path = base \o <<".png">>
                  /\ captures[j].html_path = base \o <<".html">>
                  /\ {captures[j].screenshot_path, captures[j].html_path} \subseteq files

\* A returned list with a gap: the navigation to position 2 failed, the one
\* to position 3 succeeded
C1_Witness ==
    /\ Returned
    /\ Len(detected) >= 3
    /\ 2 \notin navOk
    /\ 3 \in navOk
    /\ Len(captures) = 2
    /\ captures[2].html_path = SafeName \o <<"_", "p", "a", "g", "e", "3", ".html">>

\* C3: when detect_report_pages returns the empty list, capture_report
\* returns exactly one record, numbered 1 and named "Main", navigates to no
\* sub-page, and writes {safe_name}.png and {safe_name}.html.
C3_SinglePageMain ==
    /\ (pc = "single" \/ (Returned /\ detected = <<>>)) =>
          ~lastNav.called /\ navOk = {}
    /\ (Returned /\ detected = <<>>) =>
          /\ Len(captures) = 1
          /\ captures[1].page_number = 1
          /\ captures[1].page_name = <<"M", "a", "i", "n">>
          /\ captures[1].screenshot_path = SafeName \o <<".png">>
          /\ captures[1].html_path = SafeName \o <<".html">>
          /\ files = {SafeName \o <<".png">>, SafeName \o <<".html">>}

C3_Witness ==
    /\ pc = "generate"
    /\ detected = <<>>
    /\ Len(captures) = 1
    /\ files # {}

C7_NoBrowserWithoutConfig ==
    (vertexProjectId = "") =>
        /\ pc \in {"start", "returned"}
        /\ io = NoIo
        /\ attempted = <<>>
        /\ ~request.made

C7_Witness == vertexProjectId = "" /\ pc = "returned" /\ reports # <<>>

\* C9 as claimed: navigate_to_page returns a boolean and never raises; True
\* only after a click and the completed settle and load wait; False without
\* clicking when the index is out of range; False on any exception from the
\* query, the click or the post-click wait.
C9_FalseOnAnyException ==
    lastNav.called =>
        /\ lastNav.result.outcome \in {"return_true", "return_false"}
        /\ (lastNav.result.outcome = "return_true") =>
              lastNav.result.clicked /\ lastNav.result.settled /\ lastNav.result.waited
        /\ lastNav.outOfRange =>
              lastNav.result.outcome = "return_false" /\ ~lastNav.result.clickAttempted
        /\ (lastNav.queryRaised \/ lastNav.clickRaised \/ lastNav.loadTimedOut) =>
              lastNav.result.outcome = "return_false"

\* C9 as amended: as claimed for the query and the click; an exception inside
\* the post-click load wait is swallowed by wait_for_looker_studio_load, and
\* navigate_to_page returns True.
C9_FalseOnQueryOrClickException ==
    lastNav.called =>
        /\ lastNav.result.outcome \in {"return_true", "return_false"}
        /\ (lastNav.result.outcome = "return_true") =>
              lastNav.result.clicked /\ lastNav.result.settled /\ lastNav.result.waited
        /\ lastNav.outOfRange =>
              lastNav.result.outcome = "return_false" /\ ~lastNav.result.clickAttempted
        /\ (lastNav.queryRaised \/ lastNav.clickRaised) =>
              lastNav.result.outcome = "return_false"
        /\ lastNav.loadTimedOut => lastNav.result.outcome = "return_true"

\* The load wait timed out after the click of a selector+index descriptor
C9_Witness ==
    /\ lastNav.called
    /\ ~lastNav.byHandle
    /\ lastNav.loadTimedOut
    /\ lastNav.result.outcome = "return_true"
    /\ pc = "page"

\* C10: the prompt path agrees with the capture path: the multi-page
\* template with all screenshots iff capture_report took the multi-page
\* branch, the single-page template iff the only capture is the unsuffixed
\* "Main" capture.
C10_TemplateMatchesBranch ==
    request.made =>
        /\ (request.template = "GEMINI_PROMPT_MULTI") <=> (branch = "multi")
        /\ (request.template = "GEMINI_PROMPT_MULTI") =>
              request.images = [j \in 1..Len(captures) |-> captures[j].screenshot_path]
        /\ (request.template = "GEMINI_PROMPT_SINGLE") <=>
              /\ Len(captures) = 1
              /\ captures[1].page_name = <<"M", "a", "i", "n">>
              /\ captures[1].screenshot_path = SafeName \o <<".png">>

\* The indices of the rows with a url, in input order
WithUrl == SelectSeq([j \in 1..Len(reports) |-> j], LAMBDA j : reports[j].url # "")

\* C2: whatever exceptions individual reports raise, every report with a url
\* is attempted exactly once in input order, a failure never keeps a later
\* report from being attempted, and the run reaches browser close and the
\* completion message.
C2_RunCompletes ==
    /\ [](\A j \in 1..Len(attempted) : attempted[j] = WithUrl[j])
    /\ [](failed \subseteq Range(attempted))
    /\ []((pc = "done") => (attempted = WithUrl /\ io.closes = 1 /\ io.completed = 1))
    /\ (pc = "loop") ~> (pc = "done")

\* A run that completed although its first report failed and a later one
\* was attempted
C2_Witness ==
    /\ pc = "done"
    /\ 1 \in failed
    /\ \E j \in Range(attempted) : j > 1
    /\ io.closes = 1

====
